---- MODULE Spec2Model ----
(***************************************************************************)
(* Model of the resource-governed orchestration layer of Hybrid_Rag        *)
(* (src/demo1.py, src/file_observer.py): the intent router, the knowledge  *)
(* index manager with its rebuild lock, retrieval, the inference governor  *)
(* and the request handlers with their usage log.                          *)
(***************************************************************************)
EXTENDS Integers, Sequences, FiniteSets, TLC

VARIABLES
    state,          \* GraphState handed to the router: messages, documents, question, user_id
    route,          \* the router's return value for that state ("pending" before it ran)
    corpus,         \* the files of ./data in os.listdir order, each with its chunks
    edits,          \* number of writes made to ./data so far
    fsEvents,       \* watchdog events not yet delivered to KnowledgeHandler
    store,          \* the persisted Chroma collection "rag_collection": its chunks in insertion order
    documents,      \* self.documents
    chunks,         \* self.chunks
    bm25_retriever, \* self.bm25_retriever (None or the chunks it was built from)
    vector_store,   \* self.vector_store ("None" or an open handle on the collection)
    reindex_lock,   \* self._reindex_lock: 0 when free, else the thread holding it
    threads,        \* the background threads running RAGPipeline.reindex
    health_log,     \* system_health.log, one record per line
    rebuilds,       \* history: the records of the last two finished runs of _build_index
    append_only,    \* history: no run of _build_index so far was guarded or failed, and
                    \* each fresh chunk sequence had the one before it as a prefix
    gen,            \* the response_node call in progress: position and locals
    ncalls,         \* number of response_node calls started so far
    evictions,      \* running _evict_all_models threads: models each has left to evict
    last_call,      \* history: the record of the last finished response_node call
    last_search,    \* history: the last retrieve_node call and what it returned
    searching,      \* the retrieve_node call in progress: position and the handle it tested
    usage_log,      \* usage_log.jsonl, one record per line
    nreq,           \* number of requests received so far
    req_limit,      \* number of requests the run is followed for
    ws_open,        \* whether the client's /ws connection is being served
    knowledge_file, \* content of the knowledge_*.md file written last ("" when none)
    last_response,  \* history: the last request handled and what its caller got
    memory,         \* self.memory (MemorySaver): the conversation thread of each thread_id
    last_dispatch,  \* history: what pipeline.app.invoke did for the last request
    sup,            \* watchdog main(): position in the poll loop and its locals
    fail_count,     \* watchdog _fail_count
    server_proc,    \* watchdog _server_proc ("None" or a tracked child process)
    sup_log,        \* the [WATCHDOG] lines written to system_health.log since the current poll
    streak,         \* history: the sleeps of the current run of polls that found the port down
    last_restart,   \* history: the last completed start_server call and the sleep after it
    launches,       \* history: server launches since the last cooldown or the last poll that
                    \* found the port listening and no tracked child exited
    bk              \* a failure count handed to the backoff formula, and the result

routerVars == <<state, route>>
indexVars == <<corpus, edits, fsEvents, store, documents, chunks, bm25_retriever,
               vector_store, reindex_lock, threads, rebuilds, append_only>>
genVars == <<gen, ncalls, evictions, last_call>>
searchVars == <<last_search, searching>>
orchVars == <<usage_log, nreq, req_limit, ws_open, knowledge_file, last_response,
              memory, last_dispatch>>
supVars == <<sup, fail_count, server_proc, sup_log, streak, last_restart, launches, bk>>
vars == <<state, route, corpus, edits, fsEvents, store, documents, chunks,
          bm25_retriever, vector_store, reindex_lock, threads, health_log, rebuilds, append_only,
          gen, ncalls, evictions, last_call, last_search, searching,
          usage_log, nreq, req_limit, ws_open, knowledge_file, last_response,
          memory, last_dispatch,
          sup, fail_count, server_proc, sup_log, streak, last_restart, launches, bk>>

(***************************************************************************)
(* Bounds                                                                  *)
(***************************************************************************)
\* number of text fragments concatenated to form a message
MaxFrags == 2
\* number of background reindex threads started in a run
MaxThreads == 2
\* number of writes made to ./data in a run
MaxEdits == 1
\* number of response_node calls in a run
MaxCalls == 2
\* requests received in a run of the orchestrator
MaxRequests == 1
\* times the repeated query is issued
MaxRepeats == 4
\* sleeps kept of one run of failed polls
MaxStreak == 6
\* largest failure count handed to the backoff formula
MaxFailures == 60
\* launches counted since the last cooldown or healthy poll
MaxLaunches == 5

(***************************************************************************)
(* Python string primitives used by the router, on TLC strings             *)
(***************************************************************************)
Uppers == "ABCDEFGHIJKLMNOPQRSTUVWXYZ"
UpperChars == { SubSeq(Uppers, i, i) : i \in 1..Len(Uppers) }

\* str.lower() on one character
LowerChar(c) ==
    IF c \in UpperChars
    THEN LET i == CHOOSE j \in 1..Len(Uppers) : SubSeq(Uppers, j, j) = c
         IN  SubSeq("abcdefghijklmnopqrstuvwxyz", i, i)
    ELSE c

RECURSIVE Lower(_)
\* str.lower()
Lower(s) ==
    IF s = "" THEN ""
    ELSE LowerChar(SubSeq(s, 1, 1)) \o Lower(SubSeq(s, 2, Len(s)))

IsSpace(c) == c \in {" ", "\t", "\n", "\r"}

RECURSIVE LStrip(_)
LStrip(s) ==
    IF s # "" /\ IsSpace(SubSeq(s, 1, 1)) THEN LStrip(SubSeq(s, 2, Len(s))) ELSE s

RECURSIVE RStrip(_)
RStrip(s) ==
    IF s # "" /\ IsSpace(SubSeq(s, Len(s), Len(s)))
    THEN RStrip(SubSeq(s, 1, Len(s) - 1)) ELSE s

\* str.strip()
Strip(s) == RStrip(LStrip(s))

\* s.startswith(p)
StartsWith(s, p) == Len(p) <= Len(s) /\ SubSeq(s, 1, Len(p)) = p

\* p in s
Contains(s, p) ==
    \E i \in 1..(Len(s) - Len(p) + 1) : SubSeq(s, i, i + Len(p) - 1) = p

(***************************************************************************)
(* Optional values: Python's None, or a list                               *)
(***************************************************************************)
None == [is_none |-> TRUE, val |-> <<>>]

Some(x) == [is_none |-> FALSE, val |-> x]

(***************************************************************************)
(* Intent router (create_langgraph_workflow.router)                        *)
(***************************************************************************)
inject_triggers == {"jarvis, note that", "jarvis note that"}

learn_cues == {"remember", "save this"}

action_triggers == {"play ", "open ", "send whatsapp", "audit ", "open youtube"}

\* state["messages"][-1].content.lower().strip()
RouterMsg(st) == Strip(Lower(st.messages[Len(st.messages)]))

IsInject(msg) == \E t \in inject_triggers : StartsWith(msg, t)

IsLearn(msg) == \E c \in learn_cues : Contains(msg, c)

\* variant: prefix match only
IsAct_prefix_only(msg) == \E t \in action_triggers : StartsWith(msg, t)

IsAct(msg) == \E t \in action_triggers : StartsWith(msg, t) \/ Contains(msg, t)

\* variant: the empty list of hits is not tested
NoDocuments_absent_only(st) == st.documents.is_none

\* not state.get("documents") or len(state["documents"]) == 0
NoDocuments(st) == st.documents.is_none \/ Len(st.documents.val) = 0

\* variant: the Learn rule is tested before the Inject rule
router_learn_first(st) ==
    LET msg == RouterMsg(st) IN
    IF IsLearn(msg) THEN "learn"
    ELSE IF IsInject(msg) THEN "inject"
    ELSE IF IsAct(msg) THEN "act"
    ELSE IF NoDocuments(st) THEN "web"
    ELSE "answer"

\* variant: the Act rule is tested before the Learn rule
router_act_first(st) ==
    LET msg == RouterMsg(st) IN
    IF IsInject(msg) THEN "inject"
    ELSE IF IsAct(msg) THEN "act"
    ELSE IF IsLearn(msg) THEN "learn"
    ELSE IF NoDocuments(st) THEN "web"
    ELSE "answer"

router(st) ==
    LET msg == RouterMsg(st) IN
    IF IsInject(msg) THEN "inject"
    ELSE IF IsLearn(msg) THEN "learn"
    ELSE IF IsAct(msg) THEN "act"
    ELSE IF NoDocuments(st) THEN "web"
    ELSE "answer"

(***************************************************************************)
(* Inputs of the router                                                    *)
(***************************************************************************)
RECURSIVE TextsOf(_)
\* every concatenation of at most n fragments
TextsOf(n) ==
    IF n = 0 THEN {""}
    ELSE LET shorter == TextsOf(n - 1)
             Fragments ==
                 { "Jarvis, note that", "jarvis note that", "remember", "Save This",
                   "play ", "open ", "send whatsapp", "audit ", "open youtube",
                   " ", "tell me about permits", "re" }
         IN  shorter \cup { t \o f : t \in shorter, f \in Fragments }

\* earlier turns of the user's thread (human and assistant messages)
PriorThreads ==
    { <<>>,
      <<"remember the milk", "Logged to memory, Sir. The knowledge arrays have been updated.">>,
      <<"play jazz", "Command executed, Sir.">>,
      <<"Jarvis, note that x", "Understood, Sir.">> }

\* state["documents"] after retrieve_node: absent, empty, or the hits
DocChoices == { None, Some(<<>>), Some(<<"d1">>), Some(<<"d1", "d2">>) }

UserIds == { "Dwijas", "guest" }

RouterInit ==
    /\ \E p \in PriorThreads, t \in TextsOf(MaxFrags), d \in DocChoices, u \in UserIds :
          state = [messages |-> Append(p, t), documents |-> d,
                   question |-> t, user_id |-> u]
    /\ route = "pending"

\* the conditional edge after "retrieve" evaluates router(state)
Route ==
    /\ route = "pending"
    /\ route' = router(state)
    /\ UNCHANGED state
    /\ UNCHANGED <<indexVars, health_log, genVars, searchVars, orchVars, supVars>>

RouterNext == Route

(***************************************************************************)
(* Sequence helpers                                                        *)
(***************************************************************************)
InsertAt(seq, i, x) == SubSeq(seq, 1, i - 1) \o <<x>> \o SubSeq(seq, i, Len(seq))

RemoveAt(seq, i) == SubSeq(seq, 1, i - 1) \o SubSeq(seq, i + 1, Len(seq))

\* the fresh chunk list starts with the whole previous one
IsPrefix(old, fresh) == Len(old) <= Len(fresh) /\ SubSeq(fresh, 1, Len(old)) = old

RECURSIVE Flatten(_)
\* the chunks of a list of documents, in document order
Flatten(docs) ==
    IF docs = <<>> THEN <<>> ELSE Head(docs).chunks \o Flatten(Tail(docs))

(***************************************************************************)
(* Knowledge index manager (RAGPipeline._build_index, reindex)             *)
(***************************************************************************)
Threads == 1..MaxThreads

\* values psutil.virtual_memory().percent is sampled from
RamLevels == {40, 45}

\* variant: the guard fires at 40 % already
IndexMemGuard_at_40(ram_pct) == ram_pct >= 40

\* if ram_pct > 40 (index time)
IndexMemGuard(ram_pct) == ram_pct > 40

\* variant: the guard leaves the lists of the previous rebuild in place
GuardedList_kept(previous) == previous

\* self.documents, self.chunks = [], []
GuardedList(previous) == <<>>

\* load_documents(self.DATA_DIR) or []: one document per .txt/.md file
load_documents(dir) == dir

\* self.text_splitter.split_documents(self.documents)
split_documents(docs) == Flatten(docs)

\* variant: the count is taken from a fresh, empty collection
ExistingCount_fresh(collection) == 0

\* self.vector_store._collection.count()
ExistingCount(collection) == Len(collection)

\* variant: chunks are embedded only into an empty collection
NeedsEmbed_when_empty(existing_count, n) == existing_count = 0 /\ n > 0

\* if existing_count < len(self.chunks)
NeedsEmbed(existing_count, n) == existing_count < n

\* variant: every fresh chunk is embedded again
NewDocs_all(chs, existing_count) == chs

\* self.chunks[existing_count:]
NewDocs(chs, existing_count) == SubSeq(chs, existing_count + 1, Len(chs))

\* the collection is recreated from the chunks handed to it
add_documents_replacing(collection, new_docs) == new_docs

\* vector_store.add_documents(new_docs): the persisted collection grows by new_docs
add_documents(collection, new_docs) == collection \o new_docs

\* variant: _build_index does not take the lock
LockFree_unguarded(l) == TRUE

\* threading.Lock.acquire() succeeds only on an unlocked lock
LockFree(l) == l = 0

NoThread == [pc |-> "unborn", ram_pct |-> 0, existing_count |-> 0, ver |-> 0,
             blocked |-> FALSE]

\* the content id of the chunk the next write produces
NewChunk == edits + 3

HealthEntry(kind, by, ram) == [kind |-> kind, by |-> by, ram |-> ram]

RebuildRecord(t, ram, guarded, failed, ver, before, after, embedded, vs) ==
    [t |-> t, ram |-> ram, guarded |-> guarded, failed |-> failed, ver |-> ver,
     before |-> before, after |-> after, inserted |-> after - before,
     embedded |-> embedded, vector_store |-> vs]

\* threading.Thread(target=self.reindex, daemon=True).start()
\* variant: the handler runs self.reindex() itself, so it waits for the lock
StartReindexThread_inline(t) ==
    /\ reindex_lock = 0
    /\ threads[t].pc = "unborn"
    /\ \A u \in Threads : u < t => threads[u].pc # "unborn"
    /\ threads' = [threads EXCEPT ![t] = [NoThread EXCEPT !.pc = "reindex"]]

StartReindexThread(t) ==
    /\ threads[t].pc = "unborn"
    /\ \A u \in Threads : u < t => threads[u].pc # "unborn"
    /\ threads' = [threads EXCEPT ![t] =
                      [NoThread EXCEPT !.pc = "reindex",
                                       !.blocked = (reindex_lock # 0)]]

\* a new .md file appears in ./data at listdir position i
WriteNewFile(kind, i) ==
    /\ edits < MaxEdits
    /\ i \in 1..(Len(corpus) + 1)
    /\ corpus' = InsertAt(corpus, i, [kind |-> kind, chunks |-> <<NewChunk>>])
    /\ edits' = edits + 1
    /\ fsEvents' = [fsEvents EXCEPT !.created = @ + 1]

\* knowledge_inject_node: write knowledge_<ts>_<topic>.md, start a reindex thread
Inject(i, t) ==
    /\ WriteNewFile("note", i)
    /\ StartReindexThread(t)
    /\ UNCHANGED <<store, documents, chunks, bm25_retriever, vector_store,
                   reindex_lock, health_log, rebuilds, append_only>>
    /\ UNCHANGED <<routerVars, genVars, searchVars, orchVars, supVars>>

\* POST /teach: write injected_<ts>.md, start a reindex thread
Teach(i, t) ==
    /\ WriteNewFile("note", i)
    /\ StartReindexThread(t)
    /\ UNCHANGED <<store, documents, chunks, bm25_retriever, vector_store,
                   reindex_lock, health_log, rebuilds, append_only>>
    /\ UNCHANGED <<routerVars, genVars, searchVars, orchVars, supVars>>

\* the content id of the chunk that holds the line self_learn_node appends:
\* ids above 10 are chunks ending in a learned fact line
FactChunk == NewChunk + 10

LearnedAt == { i \in 1..Len(corpus) : corpus[i].kind = "learned" }

\* self_learn_node: append a line to learned_memory.md, start a reindex thread.
\* The file is created when absent; otherwise its last chunk changes, or the
\* line overflows into one more chunk.
Learn(i, overflow, t) ==
    /\ edits < MaxEdits
    /\ IF LearnedAt = {}
       THEN /\ i \in 1..(Len(corpus) + 1)
            /\ ~overflow
            /\ corpus' = InsertAt(corpus, i, [kind |-> "learned", chunks |-> <<FactChunk>>])
            /\ fsEvents' = [fsEvents EXCEPT !.created = @ + 1]
       ELSE /\ i \in LearnedAt
            /\ LET old == corpus[i].chunks
                   new == IF overflow THEN Append(old, FactChunk)
                          ELSE SubSeq(old, 1, Len(old) - 1) \o <<FactChunk>>
               IN  corpus' = [corpus EXCEPT ![i].chunks = new]
            /\ fsEvents' = [fsEvents EXCEPT !.modified = @ + 1]
    /\ edits' = edits + 1
    /\ StartReindexThread(t)
    /\ UNCHANGED <<store, documents, chunks, bm25_retriever, vector_store,
                   reindex_lock, health_log, rebuilds, append_only>>
    /\ UNCHANGED <<routerVars, genVars, searchVars, orchVars, supVars>>

\* a corpus file is edited in place from outside the server
ExternalModify(i, j) ==
    /\ edits < MaxEdits
    /\ i \in 1..Len(corpus)
    /\ j \in 1..Len(corpus[i].chunks)
    /\ corpus' = [corpus EXCEPT ![i].chunks[j] = NewChunk]
    /\ edits' = edits + 1
    /\ fsEvents' = [fsEvents EXCEPT !.modified = @ + 1]
    /\ UNCHANGED <<store, documents, chunks, bm25_retriever, vector_store,
                   reindex_lock, threads, health_log, rebuilds, append_only>>
    /\ UNCHANGED <<routerVars, genVars, searchVars, orchVars, supVars>>

\* a corpus file is deleted from outside the server (KnowledgeHandler has no
\* on_deleted, so no event reaches it)
ExternalDelete(i) ==
    /\ edits < MaxEdits
    /\ i \in 1..Len(corpus)
    /\ corpus' = RemoveAt(corpus, i)
    /\ edits' = edits + 1
    /\ UNCHANGED <<fsEvents, store, documents, chunks, bm25_retriever, vector_store,
                   reindex_lock, threads, health_log, rebuilds, append_only>>
    /\ UNCHANGED <<routerVars, genVars, searchVars, orchVars, supVars>>

\* KnowledgeHandler.on_created -> _trigger_reindex
on_created(t) ==
    /\ fsEvents.created > 0
    /\ fsEvents' = [fsEvents EXCEPT !.created = @ - 1]
    /\ StartReindexThread(t)
    /\ UNCHANGED <<corpus, edits, store, documents, chunks, bm25_retriever,
                   vector_store, reindex_lock, health_log, rebuilds, append_only>>
    /\ UNCHANGED <<routerVars, genVars, searchVars, orchVars, supVars>>

\* KnowledgeHandler.on_modified -> _trigger_reindex
on_modified(t) ==
    /\ fsEvents.modified > 0
    /\ fsEvents' = [fsEvents EXCEPT !.modified = @ - 1]
    /\ StartReindexThread(t)
    /\ UNCHANGED <<corpus, edits, store, documents, chunks, bm25_retriever,
                   vector_store, reindex_lock, health_log, rebuilds, append_only>>
    /\ UNCHANGED <<routerVars, genVars, searchVars, orchVars, supVars>>

\* variant: a rebuild that finds the lock taken gives up (non-blocking acquire)
Acquire_or_skip(t) ==
    /\ threads[t].pc = "reindex"
    /\ IF reindex_lock = 0
       THEN /\ reindex_lock' = t
            /\ threads' = [threads EXCEPT ![t].pc = "sample"]
       ELSE /\ threads' = [threads EXCEPT ![t] = [NoThread EXCEPT !.pc = "done"]]
            /\ UNCHANGED reindex_lock
    /\ UNCHANGED <<corpus, edits, fsEvents, store, documents, chunks, bm25_retriever,
                   vector_store, health_log, rebuilds, append_only>>
    /\ UNCHANGED <<routerVars, genVars, searchVars, orchVars, supVars>>

\* reindex -> _build_index: "with self._reindex_lock:" blocks until the lock is free
Acquire(t) ==
    /\ threads[t].pc = "reindex"
    /\ LockFree(reindex_lock)
    /\ reindex_lock' = t
    /\ threads' = [u \in Threads |->
                      IF u = t THEN [threads[u] EXCEPT !.pc = "sample"]
                      ELSE IF threads[u].pc = "reindex"
                           THEN [threads[u] EXCEPT !.blocked = TRUE]
                           ELSE threads[u]]
    /\ UNCHANGED <<corpus, edits, fsEvents, store, documents, chunks, bm25_retriever,
                   vector_store, health_log, rebuilds, append_only>>
    /\ UNCHANGED <<routerVars, genVars, searchVars, orchVars, supVars>>

\* leaving the with-block (return, fall-through or exception) releases the lock
Finish(t, rec) ==
    /\ reindex_lock' = IF reindex_lock = t THEN 0 ELSE reindex_lock
    /\ threads' = [threads EXCEPT ![t] = [NoThread EXCEPT !.pc = "done"]]
    /\ rebuilds' = <<rebuilds[Len(rebuilds)], rec>>

\* variant: the lock is taken with acquire() and released only on the normal path
LockAfterRaise_held(t) == t

\* an exception leaving the with-block releases the lock
LockAfterRaise(t) == 0

\* ram_pct = psutil.virtual_memory().percent, then the memory guard
Sample(t, ram) ==
    /\ threads[t].pc = "sample"
    /\ IF IndexMemGuard(ram)
       THEN /\ health_log' = Append(health_log, HealthEntry("MemGuardIndex", t, ram))
            /\ documents' = GuardedList(documents)
            /\ chunks' = GuardedList(chunks)
            /\ bm25_retriever' = None
            /\ vector_store' = "open"
            /\ append_only' = FALSE
            /\ Finish(t, RebuildRecord(t, ram, TRUE, FALSE, edits, Len(store),
                                       Len(store), FALSE, "open"))
       ELSE /\ threads' = [threads EXCEPT ![t].pc = "load", ![t].ram_pct = ram]
            /\ UNCHANGED <<documents, chunks, bm25_retriever, vector_store,
                           reindex_lock, health_log, rebuilds, append_only>>
    /\ UNCHANGED <<corpus, edits, fsEvents, store>>
    /\ UNCHANGED <<routerVars, genVars, searchVars, orchVars, supVars>>

\* self.documents = self.load_documents(self.DATA_DIR) or []
Load(t) ==
    /\ threads[t].pc = "load"
    /\ documents' = load_documents(corpus)
    /\ IF documents' = <<>>
       THEN /\ chunks' = <<>>
            /\ bm25_retriever' = None
            /\ vector_store' = "None"
            /\ append_only' = (append_only /\ IsPrefix(chunks, chunks'))
            /\ Finish(t, RebuildRecord(t, threads[t].ram_pct, FALSE, FALSE, edits,
                                       Len(store), Len(store), FALSE, "None"))
       ELSE /\ threads' = [threads EXCEPT ![t].pc = "split", ![t].ver = edits]
            /\ UNCHANGED <<chunks, bm25_retriever, vector_store, reindex_lock, rebuilds,
                           append_only>>
    /\ UNCHANGED <<corpus, edits, fsEvents, store, health_log>>
    /\ UNCHANGED <<routerVars, genVars, searchVars, orchVars, supVars>>

\* split the documents, rebuild BM25, open the Chroma collection
Split(t) ==
    /\ threads[t].pc = "split"
    /\ chunks' = split_documents(documents)
    /\ bm25_retriever' = Some(chunks')
    /\ vector_store' = "open"
    /\ threads' = [threads EXCEPT ![t].pc = "count"]
    /\ append_only' = (append_only /\ IsPrefix(chunks, chunks'))
    /\ UNCHANGED <<corpus, edits, fsEvents, store, documents, reindex_lock,
                   health_log, rebuilds>>
    /\ UNCHANGED <<routerVars, genVars, searchVars, orchVars, supVars>>

\* existing_count = self.vector_store._collection.count()
Count(t) ==
    /\ threads[t].pc = "count"
    /\ threads' = [threads EXCEPT ![t].pc = "add",
                                  ![t].existing_count = ExistingCount(store)]
    /\ UNCHANGED <<corpus, edits, fsEvents, store, documents, chunks, bm25_retriever,
                   vector_store, reindex_lock, health_log, rebuilds, append_only>>
    /\ UNCHANGED <<routerVars, genVars, searchVars, orchVars, supVars>>

\* compare the count; add_documents(new_docs) either stores the new chunks or
\* raises (embedding backend unreachable), which reindex() logs and swallows
Add(t, ok) ==
    /\ threads[t].pc = "add"
    /\ LET th == threads[t] IN
       IF NeedsEmbed(th.existing_count, Len(chunks))
       THEN IF ok
            THEN /\ store' = add_documents(store, NewDocs(chunks, th.existing_count))
                 /\ Finish(t, RebuildRecord(t, th.ram_pct, FALSE, FALSE, th.ver,
                                            Len(store), Len(store'), TRUE, vector_store))
                 /\ UNCHANGED <<health_log, append_only>>
            ELSE /\ health_log' = Append(health_log, HealthEntry("ReindexFailed", t, th.ram_pct))
                 /\ reindex_lock' = LockAfterRaise(t)
                 /\ threads' = [threads EXCEPT ![t] = [NoThread EXCEPT !.pc = "done"]]
                 /\ rebuilds' = <<rebuilds[Len(rebuilds)],
                                  RebuildRecord(t, th.ram_pct, FALSE, TRUE, th.ver,
                                                Len(store), Len(store), TRUE, vector_store)>>
                 /\ append_only' = FALSE
                 /\ UNCHANGED store
       ELSE /\ ok
            /\ Finish(t, RebuildRecord(t, th.ram_pct, FALSE, FALSE, th.ver,
                                       Len(store), Len(store), FALSE, vector_store))
            /\ UNCHANGED <<store, health_log, append_only>>
    /\ UNCHANGED <<corpus, edits, fsEvents, documents, chunks, bm25_retriever, vector_store>>
    /\ UNCHANGED <<routerVars, genVars, searchVars, orchVars, supVars>>

\* one step of reindex thread t
ThreadStep(t) ==
    \/ Acquire(t)
    \/ \E ram \in RamLevels : Sample(t, ram)
    \/ Load(t)
    \/ Split(t)
    \/ Count(t)
    \/ \E ok \in BOOLEAN : Add(t, ok)

\* RAGPipeline.__init__ has run _build_index() once, on a first start (no
\* persisted collection yet), with the memory guard firing or not
Constructed ==
    /\ corpus \in { <<>>,
                     <<[kind |-> "doc", chunks |-> <<1>>]>>,
                     <<[kind |-> "doc", chunks |-> <<1>>],
                       [kind |-> "learned", chunks |-> <<2>>]>> }
    /\ edits = 0
    /\ fsEvents = [created |-> 0, modified |-> 0]
    /\ \E ram \in RamLevels :
          IF IndexMemGuard(ram)
          THEN /\ store = <<>>
               /\ documents = <<>>
               /\ chunks = <<>>
               /\ bm25_retriever = None
               /\ vector_store = "open"
               /\ health_log = <<HealthEntry("MemGuardIndex", 0, ram)>>
               /\ rebuilds = <<RebuildRecord(0, ram, TRUE, FALSE, 0, 0, 0, FALSE, "open")>>
               /\ append_only = FALSE
          ELSE /\ documents = load_documents(corpus)
               /\ chunks = split_documents(documents)
               /\ bm25_retriever = (IF documents = <<>> THEN None ELSE Some(chunks))
               /\ vector_store = (IF documents = <<>> THEN "None" ELSE "open")
               /\ store = (IF NeedsEmbed(0, Len(chunks)) THEN NewDocs(chunks, 0) ELSE <<>>)
               /\ health_log = <<>>
               /\ rebuilds = <<RebuildRecord(0, ram, FALSE, FALSE, 0, 0, Len(store),
                                             Len(store) > 0, vector_store)>>
               /\ append_only = TRUE

\* the constructor has returned and no reindex thread has been started yet
IndexInit ==
    /\ Constructed
    /\ reindex_lock = 0
    /\ threads = [t \in Threads |-> NoThread]

\* the moment from which a run is followed: either the constructor has just
\* returned, or a corpus file was touched since and the reindex thread the
\* watcher started for it has taken the lock
IndexBusy ==
    /\ Constructed
    /\ \E busy \in BOOLEAN :
          IF busy
          THEN /\ reindex_lock = 1
               /\ threads = [t \in Threads |->
                                IF t = 1 THEN [NoThread EXCEPT !.pc = "sample"]
                                ELSE NoThread]
          ELSE /\ reindex_lock = 0
               /\ threads = [t \in Threads |-> NoThread]

\* listdir positions and chunk positions a write can touch
Positions == 1..(MaxEdits + 3)

IndexNext ==
    \/ \E t \in Threads : ThreadStep(t)
    \/ \E t \in Threads, i \in Positions : Inject(i, t)
    \/ \E t \in Threads, i \in Positions : Teach(i, t)
    \/ \E t \in Threads, i \in Positions, o \in BOOLEAN : Learn(i, o, t)
    \/ \E i \in Positions, j \in Positions : ExternalModify(i, j)
    \/ \E i \in Positions : ExternalDelete(i)
    \/ \E t \in Threads : on_created(t)
    \/ \E t \in Threads : on_modified(t)

\* the router is not running
RouterIdle ==
    /\ state = [messages |-> <<"">>, documents |-> None, question |-> "",
                user_id |-> "Dwijas"]
    /\ route = "pending"

(***************************************************************************)
(* Inference governor (RAGPipeline.response_node, _evict_all_models)       *)
(***************************************************************************)
\* variant: the guard fires at 40 % already
GenMemGuard_at_40(ram_now) == ram_now >= 40

\* if ram_now > 40 (inference time)
GenMemGuard(ram_now) == ram_now > 40

PrimaryAnswer == "primary answer"
FallbackAnswer == "fallback answer"
ApologyMemGuard ==
    "Apologies, Sir. Memory pressure is too high for a response right now. Please free some RAM."
ApologyBoth ==
    "Apologies, Sir. Both primary and fallback cognitive arrays are offline. Please check Ollama."

GenIdle == [pc |-> "idle", ram_now |-> 0, invoked |-> <<>>, primary_failed |-> FALSE,
            fallback_failed |-> FALSE, answer |-> "None", logged |-> {}]

\* variant: the primary call is not wrapped in try/except
AfterPrimaryFailure_unhandled == "raise"

\* where response_node goes when self.llm.invoke raises: the except branch
\* logs and tries the fallback
AfterPrimaryFailure == "fallback"

\* response_node is entered: build the prompt, sample RAM, run the memory guard
GenStart(ram) ==
    /\ gen.pc = "idle"
    /\ ncalls < MaxCalls
    /\ ncalls' = ncalls + 1
    /\ IF GenMemGuard(ram)
       THEN /\ health_log' = Append(health_log, HealthEntry("MemGuardGen", ncalls', ram))
            /\ gen' = [GenIdle EXCEPT !.pc = "fallback", !.ram_now = ram,
                                      !.logged = {"MemGuardGen"}]
       ELSE /\ gen' = [GenIdle EXCEPT !.pc = "primary", !.ram_now = ram]
            /\ UNCHANGED health_log
    /\ UNCHANGED <<evictions, last_call>>
    /\ UNCHANGED <<routerVars, indexVars, searchVars, orchVars, supVars>>

\* self.llm.invoke(...) returns or raises
InvokePrimary(ok) ==
    /\ gen.pc = "primary"
    /\ IF ok
       THEN /\ gen' = [gen EXCEPT !.pc = "evict", !.invoked = Append(@, "primary"),
                                  !.answer = PrimaryAnswer]
            /\ UNCHANGED health_log
       ELSE /\ health_log' = Append(health_log, HealthEntry("PrimaryFailed", ncalls, gen.ram_now))
            /\ gen' = [gen EXCEPT !.pc = AfterPrimaryFailure,
                                  !.invoked = Append(@, "primary"),
                                  !.primary_failed = TRUE,
                                  !.logged = @ \cup {"PrimaryFailed"}]
    /\ UNCHANGED <<ncalls, evictions, last_call>>
    /\ UNCHANGED <<routerVars, indexVars, searchVars, orchVars, supVars>>

\* self.llm_fallback.invoke(...) returns or raises, under the memory guard or
\* after a primary failure
InvokeFallback(ok) ==
    /\ gen.pc = "fallback"
    /\ LET direct == ~gen.primary_failed IN
       IF ok
       THEN /\ gen' = [gen EXCEPT !.pc = "evict", !.invoked = Append(@, "fallback"),
                                  !.answer = FallbackAnswer]
            /\ UNCHANGED health_log
       ELSE /\ health_log' = Append(health_log,
                                    HealthEntry("FallbackFailed", ncalls, gen.ram_now))
            /\ gen' = [gen EXCEPT !.pc = "evict",
                                  !.invoked = Append(@, "fallback"),
                                  !.fallback_failed = TRUE,
                                  !.answer = (IF direct THEN ApologyMemGuard
                                             ELSE ApologyBoth),
                                  !.logged = @ \cup {"FallbackFailed"}]
    /\ UNCHANGED <<ncalls, evictions, last_call>>
    /\ UNCHANGED <<routerVars, indexVars, searchVars, orchVars, supVars>>

\* the eviction thread is started inside the try blocks, so only after an answer
StartsEviction_on_answer(g) == g.answer \notin {ApologyMemGuard, ApologyBoth}

\* the eviction thread is started after the if/else, on every path that reaches it
StartsEviction(g) == TRUE

CallRecord(g, n, raised, evicted) ==
    [n |-> n, ram |-> g.ram_now, invoked |-> g.invoked,
     primary_failed |-> g.primary_failed, fallback_failed |-> g.fallback_failed,
     answer |-> g.answer, logged |-> g.logged,
     raised |-> raised, evicted |-> evicted]

\* the end of response_node: start the eviction thread and return the answer
\* (an exception that escaped the try blocks skips both)
GenReturn ==
    /\ gen.pc \in {"evict", "raise"}
    /\ IF gen.pc = "evict" /\ StartsEviction(gen)
       THEN /\ evictions' = Append(evictions, Len(<<"llama3.2:1b", "nomic-embed-text:latest">>))
            /\ last_call' = CallRecord(gen, ncalls, FALSE, 1)
       ELSE /\ UNCHANGED evictions
            /\ last_call' = CallRecord(gen, ncalls, gen.pc = "raise", 0)
    /\ gen' = GenIdle
    /\ UNCHANGED <<ncalls, health_log>>
    /\ UNCHANGED <<routerVars, indexVars, searchVars, orchVars, supVars>>

\* one _ollama_evict(m) of eviction thread i; the thread ends after the last model
EvictStep(i) ==
    /\ i \in 1..Len(evictions)
    /\ evictions' = IF evictions[i] = 1 THEN RemoveAt(evictions, i)
                    ELSE [evictions EXCEPT ![i] = @ - 1]
    /\ UNCHANGED <<gen, ncalls, last_call, health_log>>
    /\ UNCHANGED <<routerVars, indexVars, searchVars, orchVars, supVars>>

GenInit ==
    /\ gen = GenIdle
    /\ ncalls = 0
    /\ evictions = <<>>
    /\ last_call = CallRecord(GenIdle, 0, FALSE, 0)

GenNext ==
    \/ \E ram \in RamLevels : GenStart(ram)
    \/ \E ok \in BOOLEAN : InvokePrimary(ok)
    \/ \E ok \in BOOLEAN : InvokeFallback(ok)
    \/ GenReturn
    \/ \E i \in 1..MaxCalls : EvictStep(i)

(***************************************************************************)
(* Retrieval (RAGPipeline.retrieve_node)                                   *)
(***************************************************************************)
\* similarity_search(q, k=3)
SearchK == 3

NotSearching == [pc |-> "idle", seen |-> "None"]

\* no retrieve_node call has been made
SearchIdle ==
    /\ last_search = [n |-> 0, vector_store |-> "None", loaded |-> FALSE,
                      guarded |-> FALSE, count |-> 0, raised |-> FALSE,
                      documents |-> <<>>, backend_ok |-> TRUE]
    /\ searching = NotSearching

Min(a, b) == IF a < b THEN a ELSE b

\* Chroma's similarity_search: the k nearest chunks of the collection, all of
\* them when it holds fewer (which chunks are nearest depends on the query)
similarity_search(collection, k) == SubSeq(collection, 1, Min(k, Len(collection)))

\* variant: retrieve_node queries the handle without testing it
retrieve_documents_unchecked(vs, collection, ok) ==
    IF vs # "None" /\ ok
    THEN [raised |-> FALSE, documents |-> similarity_search(collection, SearchK)]
    ELSE [raised |-> TRUE, documents |-> <<>>]

\* retrieve_node: [] without a handle, else the similarity query, which raises
\* when the embedding backend cannot be reached (ok = FALSE)
retrieve_documents(vs, collection, ok) ==
    IF vs = "None"
    THEN [raised |-> FALSE, documents |-> <<>>]
    ELSE IF ok
         THEN [raised |-> FALSE, documents |-> similarity_search(collection, SearchK)]
         ELSE [raised |-> TRUE, documents |-> <<>>]

\* calling similarity_search on None raises AttributeError
query_handle(vs, collection, ok) ==
    IF vs = "None"
    THEN [raised |-> TRUE, documents |-> <<>>]
    ELSE retrieve_documents(vs, collection, ok)

SearchRecord(seen, r, ok) ==
    [n |-> 1, vector_store |-> seen,
     loaded |-> (documents # <<>>),
     guarded |-> rebuilds[Len(rebuilds)].guarded,
     count |-> Len(store),
     raised |-> r.raised, documents |-> r.documents,
     backend_ok |-> ok]

\* retrieve_node, line 295: if not self.vector_store: return no documents
SearchCheck ==
    /\ searching.pc = "idle"
    /\ last_search.n = 0
    /\ IF vector_store = "None"
       THEN /\ last_search' = SearchRecord("None",
                                  retrieve_documents("None", store, TRUE), TRUE)
            /\ UNCHANGED searching
       ELSE /\ searching' = [pc |-> "query", seen |-> vector_store]
            /\ UNCHANGED last_search
    /\ UNCHANGED <<routerVars, indexVars, health_log, genVars, orchVars, supVars>>

\* retrieve_node, line 296: the similarity query, at any later moment of the
\* index manager's run; self.vector_store is read a second time
SearchQuery(ok) ==
    /\ searching.pc = "query"
    /\ last_search' = SearchRecord(searching.seen,
                           query_handle(vector_store, store, ok),
                           ok)
    /\ searching' = NotSearching
    /\ UNCHANGED <<routerVars, indexVars, health_log, genVars, orchVars, supVars>>

\* the index manager's run is followed until a retrieve_node call has returned
IndexUntilSearched == last_search.n = 0 /\ IndexNext

SearchNext ==
    \/ IndexUntilSearched
    \/ SearchCheck
    \/ \E ok \in BOOLEAN : SearchQuery(ok)

(***************************************************************************)
(* Orchestrator (POST /ask_jarvis, /ws, POST /voice) and the nodes a       *)
(* request is dispatched to                                                *)
(***************************************************************************)
\* str.replace(old, new): every non-overlapping occurrence, left to right
RECURSIVE Replace(_, _, _)
Replace(s, old, new) ==
    IF Len(s) < Len(old) THEN s
    ELSE IF SubSeq(s, 1, Len(old)) = old
         THEN new \o Replace(SubSeq(s, Len(old) + 1, Len(s)), old, new)
         ELSE SubSeq(s, 1, 1) \o Replace(SubSeq(s, 2, Len(s)), old, new)

\* the phrases knowledge_inject_node removes, in the order it removes them
inject_phrases ==
    <<"jarvis, note that", "jarvis note that", "remember this:", "remember this",
      "save this:", "save this">>

\* the loop body for phrases k.. : clean = clean.lower().replace(phrase, "").strip()
RECURSIVE CleanFrom(_, _)
CleanFrom(clean, k) ==
    IF k > Len(inject_phrases) THEN clean
    ELSE CleanFrom(Strip(Replace(Lower(clean), inject_phrases[k], "")), k + 1)

ActAnswer == "Command executed, Sir."

\* action_engine.detect_action: the action type, or None
detect_action(text) ==
    LET t == Strip(Lower(text)) IN
    IF StartsWith(t, "play ") THEN Some("play")
    ELSE IF StartsWith(t, "open ") THEN Some("open")
    ELSE IF Contains(t, "send whatsapp") THEN Some("whatsapp")
    ELSE IF StartsWith(t, "audit ") THEN Some("audit")
    ELSE IF Contains(t, "open youtube") THEN Some("play")
    ELSE None

\* action_engine.parse_and_execute: None when no action is detected, else
\* what the dispatcher of the action type reports back
parse_and_execute(text) ==
    LET action == detect_action(Strip(text)) IN
    IF action.is_none THEN None ELSE Some("Dispatched " \o action.val \o ", Sir.")

\* action_node: ans = result or "Command executed, Sir."
action_node(msg) ==
    LET result == parse_and_execute(msg) IN
    IF result.is_none THEN ActAnswer ELSE result.val

\* the answer the node reached for an intent leaves in the graph state;
\* which answer response_node produces is the inference governor's matter
NodeAnswer(intent, msg) ==
    CASE intent = "inject" -> "Understood, Sir. I've committed that to my long-term memory and am re-indexing the knowledge base now."
      [] intent = "learn" -> "Logged to memory, Sir. The knowledge arrays have been updated."
      [] intent = "act" -> action_node(msg)
      [] OTHER -> PrimaryAnswer

\* the mapping of add_conditional_edges("retrieve", router, ...)
RouteTarget(intent) ==
    CASE intent = "inject" -> "knowledge_inject"
      [] intent = "learn" -> "self_learn"
      [] intent = "act" -> "action"
      [] intent = "web" -> "web_search"
      [] OTHER -> "respond"

\* variant: every node but the responder hands over to the responder
Successor_via_respond(node) == IF node # "respond" THEN "respond" ELSE "END"

\* add_edge: web_search -> respond; self_learn, knowledge_inject, action and
\* respond -> END
Successor(node) == IF node = "web_search" THEN "respond" ELSE "END"

RECURSIVE PathFrom(_)
\* the nodes run from node on, in order
PathFrom(node) ==
    IF node = "END" THEN <<>> ELSE <<node>> \o PathFrom(Successor(node))

Turn(role, content) == [role |-> role, content |-> content]

\* variant: retrieve_node also returns a message
NodeMessages_retrieve_echo(node, answer) ==
    IF node = "web_search" THEN <<>> ELSE <<Turn("ai", answer)>>

\* the "messages" a node returns: retrieve_node and web_search_node return
\* none, every other node returns one AIMessage with its answer
NodeMessages(node, answer) ==
    IF node \in {"retrieve", "web_search"} THEN <<>> ELSE <<Turn("ai", answer)>>

RECURSIVE PathMessages(_, _)
\* add_messages over the nodes of a path
PathMessages(path, answer) ==
    IF path = <<>> THEN <<>>
    ELSE NodeMessages(Head(path), answer) \o PathMessages(Tail(path), answer)

\* the text of the exception a node raised
ErrorDetail == "connection refused"

NoDispatch ==
    [raised |-> FALSE, intent |-> "none", answer |-> "", file |-> "", path |-> <<>>,
     acted |-> FALSE, turns |-> <<>>]

\* pipeline.app.invoke(inputs, config): retrieve, route, run the nodes of the
\* path; ok is FALSE when a node raises. The result carries the knowledge file
\* a successful Inject wrote ("" when none), the nodes run, whether the action
\* engine dispatched an action, and the turns added to the thread.
invoke(text, u, ok) ==
    LET docs == retrieve_documents(vector_store, store, TRUE).documents
        intent == router([messages |-> <<text>>, documents |-> Some(docs),
                          question |-> text, user_id |-> u])
        answer == NodeAnswer(intent, text)
        path == <<"retrieve">> \o PathFrom(RouteTarget(intent))
    IN  IF ok
        THEN [raised |-> FALSE, intent |-> intent, answer |-> answer,
              file |-> IF intent = "inject" THEN "# Knowledge Entry - <ts>\n\n" \o CleanFrom(text, 1) \o "\n"
                      ELSE "",
              path |-> path,
              acted |-> (intent = "act" /\ ~detect_action(Strip(text)).is_none),
              turns |-> <<Turn("human", text)>> \o PathMessages(path, answer)]
        ELSE [raised |-> TRUE, intent |-> intent, answer |-> "", file |-> "",
              path |-> <<>>, acted |-> FALSE, turns |-> <<Turn("human", text)>>]

\* the checkpointer after invoke: a successful run has added its turns to the
\* thread of thread_id u; of a run that raised, the incoming turn is kept or
\* not, depending on where the run stopped
Checkpointed(result, u) ==
    IF ~result.raised
    THEN { [memory EXCEPT ![u] = @ \o result.turns] }
    ELSE { memory, [memory EXCEPT ![u] = @ \o result.turns] }

ShortcutHint ==
    "\n\n[JARVIS]: Sir, I notice you ask this frequently. Shall I create an auto-report shortcut for it?"

\* variant: the logged query is compared as written
QueryEq_exact(a, b) == a = b

\* e.get("query", "").lower() == query.lower()
QueryEq(a, b) == Lower(a) = Lower(b)

\* variant: the suggestion is made from the second matching entry on
ShortcutThreshold_at_2(count) == count >= 2

\* if count >= 3
ShortcutThreshold(count) == count >= 3

\* the number of logged entries asking for query
MatchCount(log, query) ==
    Cardinality({ i \in 1..Len(log) : QueryEq(log[i].query, query) })

\* RAGPipeline._check_shortcut
check_shortcut(log, query) ==
    IF ShortcutThreshold(MatchCount(log, query)) THEN ShortcutHint ELSE ""

\* one line of usage_log.jsonl (without its timestamp)
UsageEntry(u, query, outcome) == [user_id |-> u, query |-> query, outcome |-> outcome]

\* RAGPipeline._log_usage
log_usage(log, u, query, outcome) == Append(log, UsageEntry(u, query, outcome))

\* what the caller of a request got: the answer strings delivered, whether
\* the handler let an exception out, whether the handler goes on serving the
\* connection, and the log length when the request arrived
Response(n, channel, u, text, dispatched, raised, propagated, answers, serving) ==
    [n |-> n, channel |-> channel, user_id |-> u, text |-> text,
     dispatched |-> dispatched, raised |-> raised, propagated |-> propagated,
     answers |-> answers, serving |-> serving, prior |-> Len(usage_log)]

NoResponse ==
    [n |-> 0, channel |-> "none", user_id |-> "", text |-> "", dispatched |-> FALSE,
     raised |-> FALSE, propagated |-> FALSE, answers |-> <<>>, serving |-> TRUE,
     prior |-> 0]

\* POST /ask_jarvis
ask_jarvis(u, text, ok) ==
    /\ nreq < req_limit
    /\ nreq' = nreq + 1
    /\ LET shortcut_hint == check_shortcut(usage_log, text)
           result == invoke(text, u, ok)
       IN  /\ last_dispatch' = result
           /\ memory' \in Checkpointed(result, u)
           /\ IF ~result.raised
              THEN /\ usage_log' = log_usage(usage_log, u, text, "ok")
                   /\ knowledge_file' = (IF result.file # "" THEN result.file
                                         ELSE knowledge_file)
                   /\ last_response' = Response(nreq', "http", u, text, TRUE, FALSE, FALSE,
                                                <<result.answer \o shortcut_hint>>, TRUE)
                   /\ UNCHANGED health_log
              ELSE /\ health_log' = Append(health_log, HealthEntry("EndpointCrash", 0, 0))
                   /\ usage_log' = log_usage(usage_log, u, text, "error: " \o ErrorDetail)
                   /\ last_response' = Response(nreq', "http", u, text, TRUE, TRUE, FALSE,
                                                <<"Apologies, Sir. A hiccup in the RAG node: "
                                                  \o ErrorDetail>>,
                                                TRUE)
                   /\ UNCHANGED knowledge_file
    /\ UNCHANGED <<req_limit, ws_open>>
    /\ UNCHANGED <<routerVars, indexVars, genVars, searchVars, supVars>>

\* websocket_endpoint up to its serving loop: accept and register the client
ws_connect ==
    /\ ~ws_open
    /\ ws_open' = TRUE
    /\ UNCHANGED <<usage_log, nreq, req_limit, knowledge_file, last_response, health_log,
                   memory, last_dispatch>>
    /\ UNCHANGED <<routerVars, indexVars, genVars, searchVars, supVars>>

\* receive_text raises WebSocketDisconnect: the client is removed, the loop ends
ws_disconnect ==
    /\ ws_open
    /\ ws_open' = FALSE
    /\ UNCHANGED <<usage_log, nreq, req_limit, knowledge_file, last_response, health_log,
                   memory, last_dispatch>>
    /\ UNCHANGED <<routerVars, indexVars, genVars, searchVars, supVars>>

\* one turn of the serving loop of websocket_endpoint on a received message
ws_message(u, raw, ok) ==
    /\ ws_open
    /\ nreq < req_limit
    /\ nreq' = nreq + 1
    /\ LET text == Strip(raw) IN
       IF text = ""
       THEN /\ ok
            /\ last_response' = Response(nreq', "ws", u, text, FALSE, FALSE, FALSE, <<>>, TRUE)
            /\ last_dispatch' = NoDispatch
            /\ UNCHANGED <<usage_log, knowledge_file, ws_open, health_log, memory>>
       ELSE LET shortcut_hint == check_shortcut(usage_log, text)
                result == invoke(text, u, ok)
            IN  /\ last_dispatch' = result
                /\ memory' \in Checkpointed(result, u)
                /\ IF ~result.raised
                   THEN /\ usage_log' = log_usage(usage_log, u, text, "ws_ok")
                        /\ knowledge_file' = (IF result.file # "" THEN result.file ELSE knowledge_file)
                        /\ last_response' = Response(nreq', "ws", u, text, TRUE, FALSE, FALSE,
                                                     <<result.answer \o shortcut_hint>>, TRUE)
                        /\ UNCHANGED <<ws_open, health_log>>
                   ELSE /\ health_log' = Append(health_log, HealthEntry("WebSocketError", 0, 0))
                        /\ ws_open' = FALSE
                        /\ last_response' = Response(nreq', "ws", u, text, TRUE, TRUE, FALSE, <<>>, FALSE)
                        /\ UNCHANGED <<usage_log, knowledge_file>>
    /\ UNCHANGED req_limit
    /\ UNCHANGED <<routerVars, indexVars, genVars, searchVars, supVars>>

\* POST /voice, from the transcript on (transcribe returns the stripped text)
voice_endpoint(u, raw, ok) ==
    /\ nreq < req_limit
    /\ nreq' = nreq + 1
    /\ LET text == Strip(raw) IN
       IF text = ""
       THEN /\ ok
            /\ last_response' = Response(nreq', "voice", u, text, FALSE, FALSE, FALSE, <<>>, TRUE)
            /\ last_dispatch' = NoDispatch
            /\ UNCHANGED <<usage_log, knowledge_file, memory>>
       ELSE LET result == invoke(text, u, ok)
            IN  /\ last_dispatch' = result
                /\ memory' \in Checkpointed(result, u)
                /\ IF ~result.raised
                   THEN /\ usage_log' = log_usage(usage_log, u, text, "voice_ok")
                        /\ knowledge_file' = (IF result.file # "" THEN result.file ELSE knowledge_file)
                        /\ last_response' = Response(nreq', "voice", u, text, TRUE, FALSE, FALSE,
                                                     <<result.answer>>, TRUE)
                   ELSE /\ last_response' = Response(nreq', "voice", u, text, TRUE, TRUE, TRUE, <<>>, TRUE)
                        /\ UNCHANGED <<usage_log, knowledge_file>>
    /\ UNCHANGED <<req_limit, ws_open, health_log>>
    /\ UNCHANGED <<routerVars, indexVars, genVars, searchVars, supVars>>

\* the request texts followed
OrchTexts ==
    { "status report", "Status Report ", "Jarvis, note that the client meets Fridays", "  ",
      "remember the gate code", "play jazz", "please play jazz" }

\* usage logs earlier requests have left behind
PriorLogs ==
    LET e1 == UsageEntry("guest", "Status Report", "ok")
        e2 == UsageEntry("Dwijas", "status report", "error: " \o ErrorDetail)
        e3 == UsageEntry("Dwijas", "STATUS REPORT", "voice_ok")
        e4 == UsageEntry("Dwijas", "weather", "ws_ok")
    IN  { <<>>, <<e1, e2>>, <<e1, e2, e4>>, <<e1, e2, e3>> }

\* no request has been received
OrchIdle ==
    /\ usage_log = <<>>
    /\ nreq = 0
    /\ req_limit = 0
    /\ ws_open = FALSE
    /\ knowledge_file = ""
    /\ last_response = NoResponse
    /\ memory = [u \in UserIds |-> <<>>]
    /\ last_dispatch = NoDispatch

\* the server starts on the usage log of earlier runs
OrchInit ==
    /\ usage_log \in PriorLogs
    /\ nreq = 0
    /\ req_limit = MaxRequests
    /\ ws_open = FALSE
    /\ knowledge_file = ""
    /\ last_response = NoResponse
    /\ memory = [u \in UserIds |-> <<>>]
    /\ last_dispatch = NoDispatch

OrchNext ==
    \/ \E u \in UserIds, text \in OrchTexts, ok \in BOOLEAN : ask_jarvis(u, text, ok)
    \/ ws_connect
    \/ ws_disconnect
    \/ \E u \in UserIds, raw \in OrchTexts, ok \in BOOLEAN : ws_message(u, raw, ok)
    \/ \E u \in UserIds, raw \in OrchTexts, ok \in BOOLEAN : voice_endpoint(u, raw, ok)

\* the query that is issued again and again
RepeatQuery == "status report"

\* a usage log without an entry for RepeatQuery
RepeatInit ==
    /\ usage_log \in { l \in PriorLogs : MatchCount(l, RepeatQuery) = 0 }
    /\ nreq = 0
    /\ req_limit = MaxRepeats
    /\ ws_open = FALSE
    /\ knowledge_file = ""
    /\ last_response = NoResponse
    /\ memory = [u \in UserIds |-> <<>>]
    /\ last_dispatch = NoDispatch

RepeatNext ==
    \E u \in UserIds, ok \in BOOLEAN : ask_jarvis(u, RepeatQuery, ok)

(***************************************************************************)
(* Supervisor (src/watchdog_jarvis.py)                                     *)
(***************************************************************************)
POLL_INTERVAL == 30
MAX_BACKOFF == 120
\* cooldown = 300
COOLDOWN == 300
\* time.sleep(25) after restarting an exited child
CHILD_GRACE == 25

\* variant: the doubling is not capped
Backoff_uncapped(f) == POLL_INTERVAL * (2 ^ Min(f, 3))

\* backoff = min(POLL_INTERVAL * (2 ** min(_fail_count, 3)), MAX_BACKOFF)
Backoff(f) == Min(POLL_INTERVAL * (2 ^ Min(f, 3)), MAX_BACKOFF)

\* variant: the cooldown waits for more than 3 failures
CooldownDue_above_3(f) == f > 3

\* if _fail_count >= 3
CooldownDue(f) == f >= 3

\* variant: the count survives the cooldown
CountAfterCooldown_kept(f) == f

\* _fail_count = 0   # fresh slate after cooldown
CountAfterCooldown(f) == 0

\* variant: a success takes one failure off the count
CountAfterSuccess_decay(f) == IF f > 0 THEN f - 1 ELSE 0

\* _fail_count = 0  # reset on success
CountAfterSuccess(f) == 0

\* variant: the launch is counted twice
CountAfterLaunch_twice(f) == f + 2

\* _fail_count += 1, reached only when Popen has returned
CountAfterLaunch(f) == f + 1

\* variant: the backoff is slept after every restart
GraceAfter_backoff(origin, backoff) == backoff

\* the sleep after start_server: the backoff on the port-down path, 25 s on
\* the child-exit path
GraceAfter(origin, backoff) == IF origin = "down" THEN backoff ELSE CHILD_GRACE

\* variant: start_server logs nothing
RestartedLog_silent == <<>>

\* the two log lines of start_server
RestartedLog == <<"Restarted", "Apology">>

\* variant: the exception leaves the poll loop
AfterLaunchError_unhandled == "stopped"

\* except Exception in main: log and go on to the interval sleep
AfterLaunchError == "interval"

\* the log lines of kill_zombies, which met nothing on port 8000 ("none"),
\* killed a process or met an error: errors are swallowed without a line
KillLog(kill) == IF kill = "killed" THEN <<"ZombieCleared">> ELSE <<>>

NoStreak == [f0 |-> -1, sleeps |-> <<>>]

NoRestart == [cause |-> "none", f |-> 0, after |-> 0, sleep |-> 0]

SupStart ==
    [pc |-> "poll", alive |-> TRUE, f_at_poll |-> 0, origin |-> "none",
     backoff |-> 0, kill |-> "none"]

\* one more sleep of the current streak (the history keeps MaxStreak of them)
Slept(seconds) ==
    IF streak.f0 >= 0 /\ Len(streak.sleeps) < MaxStreak
    THEN [streak EXCEPT !.sleeps = Append(@, seconds)]
    ELSE streak

\* alive = is_port_alive(8000)
Poll(alive) ==
    /\ sup.pc = "poll"
    /\ sup' = [SupStart EXCEPT !.pc = (IF alive THEN "up" ELSE "down"),
                               !.alive = alive, !.f_at_poll = fail_count]
    /\ sup_log' = <<>>
    /\ streak' = IF alive THEN NoStreak
                 ELSE IF streak.f0 < 0 THEN [NoStreak EXCEPT !.f0 = fail_count]
                 ELSE streak
    /\ UNCHANGED <<fail_count, server_proc, last_restart, launches, bk>>
    /\ UNCHANGED <<routerVars, indexVars, health_log, genVars, searchVars, orchVars>>

\* the port is down: enter the cooldown when it is due
Down ==
    /\ sup.pc = "down"
    /\ IF CooldownDue(fail_count)
       THEN /\ sup' = [sup EXCEPT !.pc = "cooldown"]
            /\ sup_log' = Append(sup_log, "CooldownStart")
       ELSE /\ sup' = [sup EXCEPT !.pc = "backoff"]
            /\ UNCHANGED sup_log
    /\ UNCHANGED <<fail_count, server_proc, streak, last_restart, launches, bk>>
    /\ UNCHANGED <<routerVars, indexVars, health_log, genVars, searchVars, orchVars>>

\* time.sleep(cooldown) returns: reset the count, log, go on to the restart
Cooldown ==
    /\ sup.pc = "cooldown"
    /\ fail_count' = CountAfterCooldown(fail_count)
    /\ sup_log' = Append(sup_log, "CooldownComplete")
    /\ streak' = Slept(COOLDOWN)
    /\ sup' = [sup EXCEPT !.pc = "backoff"]
    /\ launches' = 0
    /\ UNCHANGED <<server_proc, last_restart, bk>>
    /\ UNCHANGED <<routerVars, indexVars, health_log, genVars, searchVars, orchVars>>

\* compute the backoff of this restart attempt and log it
ComputeBackoff ==
    /\ sup.pc = "backoff"
    /\ sup' = [sup EXCEPT !.pc = "start", !.origin = "down",
                          !.backoff = Backoff(fail_count)]
    /\ sup_log' = Append(sup_log, "PortDown")
    /\ UNCHANGED <<fail_count, server_proc, streak, last_restart, launches, bk>>
    /\ UNCHANGED <<routerVars, indexVars, health_log, genVars, searchVars, orchVars>>

\* the port is up: reset the count
Up ==
    /\ sup.pc = "up"
    /\ fail_count' = CountAfterSuccess(fail_count)
    /\ sup' = [sup EXCEPT !.pc = "child"]
    /\ UNCHANGED <<server_proc, sup_log, streak, last_restart, launches, bk>>
    /\ UNCHANGED <<routerVars, indexVars, health_log, genVars, searchVars, orchVars>>

\* if _server_proc and _server_proc.poll() is not None: log and restart
CheckChild(exited) ==
    /\ sup.pc = "child"
    /\ IF server_proc = "tracked" /\ exited
       THEN /\ sup' = [sup EXCEPT !.pc = "start", !.origin = "exit"]
            /\ sup_log' = Append(sup_log, "ChildExited")
            /\ UNCHANGED launches
       ELSE /\ ~exited
            /\ sup' = [sup EXCEPT !.pc = "interval"]
            /\ launches' = 0
            /\ UNCHANGED sup_log
    /\ UNCHANGED <<fail_count, server_proc, streak, last_restart, bk>>
    /\ UNCHANGED <<routerVars, indexVars, health_log, genVars, searchVars, orchVars>>

\* start_server(): kill_zombies, Popen, the two log lines, _fail_count += 1;
\* a Popen that raises leaves through the except clause of main
StartServer(kill, launch_ok) ==
    /\ sup.pc = "start"
    /\ IF launch_ok
       THEN /\ server_proc' = "tracked"
            /\ fail_count' = CountAfterLaunch(fail_count)
            /\ launches' = Min(launches + 1, MaxLaunches)
            /\ sup_log' = sup_log \o KillLog(kill) \o RestartedLog
            /\ sup' = [sup EXCEPT !.pc = "grace", !.kill = kill]
            /\ last_restart' = [cause |-> sup.origin, f |-> fail_count,
                                after |-> fail_count', 
                                sleep |-> GraceAfter(sup.origin, sup.backoff)]
       ELSE /\ sup_log' = sup_log \o KillLog(kill) \o <<"WatchdogError">>
            /\ sup' = [sup EXCEPT !.pc = AfterLaunchError, !.kill = kill,
                                  !.origin = "failed"]
            /\ UNCHANGED <<server_proc, fail_count, last_restart, launches>>
    /\ UNCHANGED <<streak, bk>>
    /\ UNCHANGED <<routerVars, indexVars, health_log, genVars, searchVars, orchVars>>

\* the sleep after start_server returns
Grace ==
    /\ sup.pc = "grace"
    /\ streak' = IF sup.origin = "down" THEN Slept(last_restart.sleep) ELSE streak
    /\ sup' = [sup EXCEPT !.pc = "interval"]
    /\ UNCHANGED <<fail_count, server_proc, sup_log, last_restart, launches, bk>>
    /\ UNCHANGED <<routerVars, indexVars, health_log, genVars, searchVars, orchVars>>

\* time.sleep(POLL_INTERVAL) returns: next turn of the loop
Interval ==
    /\ sup.pc = "interval"
    /\ sup' = [sup EXCEPT !.pc = "poll"]
    /\ UNCHANGED <<fail_count, server_proc, sup_log, streak, last_restart, launches, bk>>
    /\ UNCHANGED <<routerVars, indexVars, health_log, genVars, searchVars, orchVars>>

\* main() has logged its start and slept its initial 20 s
SupInit ==
    /\ sup = SupStart
    /\ fail_count = 0
    /\ server_proc = "None"
    /\ sup_log = <<>>
    /\ streak = NoStreak
    /\ last_restart = NoRestart
    /\ launches = 0
    /\ bk = [f |-> 0, sleep |-> -1]

\* the supervisor is not running
SupIdle == SupInit

SupNext ==
    \/ \E alive \in BOOLEAN : Poll(alive)
    \/ Down
    \/ Cooldown
    \/ ComputeBackoff
    \/ Up
    \/ \E exited \in BOOLEAN : CheckChild(exited)
    \/ \E kill \in {"none", "killed", "error"}, launch_ok \in BOOLEAN : StartServer(kill, launch_ok)
    \/ Grace
    \/ Interval

\* a failure count handed to the backoff formula
BackoffInit ==
    /\ sup = SupStart
    /\ fail_count = 0
    /\ server_proc = "None"
    /\ sup_log = <<>>
    /\ streak = NoStreak
    /\ last_restart = NoRestart
    /\ launches = 0
    /\ bk \in [f : 0..MaxFailures, sleep : {-1}]

\* the backoff formula applied to the count
ApplyBackoff ==
    /\ bk.sleep = -1
    /\ bk' = [bk EXCEPT !.sleep = Backoff(bk.f)]
    /\ UNCHANGED <<sup, fail_count, server_proc, sup_log, streak, last_restart, launches>>
    /\ UNCHANGED <<routerVars, indexVars, health_log, genVars, searchVars, orchVars>>

BackoffNext == ApplyBackoff

(***************************************************************************)
(* Specifications                                                          *)
(***************************************************************************)
\* the index and the governor at rest
Quiet == IndexInit /\ GenInit /\ corpus = <<>> /\ health_log = <<>>

InitRouter == RouterInit /\ Quiet /\ SearchIdle /\ OrchIdle /\ SupIdle

SpecRouter == InitRouter /\ [][RouterNext]_vars

InitIndex == RouterIdle /\ IndexInit /\ GenInit /\ SearchIdle /\ OrchIdle /\ SupIdle

SpecIndex == InitIndex /\ [][IndexNext]_vars

InitGen == RouterIdle /\ IndexInit /\ GenInit /\ SearchIdle /\ OrchIdle /\ SupIdle

SpecGen == InitGen /\ [][GenNext]_vars

InitBusy == RouterIdle /\ IndexBusy /\ GenInit /\ SearchIdle /\ OrchIdle /\ SupIdle

\* the index manager followed from a moment at which a rebuild may hold the lock
SpecBusy == InitBusy /\ [][IndexNext]_vars

\* retrieve_node calls interleaved with the index manager
SpecSearch == InitIndex /\ [][SearchNext]_vars

InitOrch == RouterIdle /\ Quiet /\ SearchIdle /\ OrchInit /\ SupIdle

\* requests arriving on the three channels
SpecOrch == InitOrch /\ [][OrchNext]_vars

InitRepeat == RouterIdle /\ Quiet /\ SearchIdle /\ RepeatInit /\ SupIdle

\* one query issued repeatedly through POST /ask_jarvis
SpecRepeat == InitRepeat /\ [][RepeatNext]_vars

InitGraph ==
    RouterIdle /\ IndexInit /\ GenInit /\ SearchIdle /\ OrchInit /\ usage_log = <<>> /\ SupIdle

\* requests arriving, on a first run of the server, over an index as the
\* constructor left it
SpecGraph == InitGraph /\ [][OrchNext]_vars

InitSup == RouterIdle /\ Quiet /\ SearchIdle /\ OrchIdle /\ SupInit

\* the supervisor's poll loop
SpecSup == InitSup /\ [][SupNext]_vars

\* every sleep of the supervisor returns and every call it makes ends
FairSpecSup == SpecSup /\ WF_vars(SupNext)

InitBackoff == RouterIdle /\ Quiet /\ SearchIdle /\ OrchIdle /\ BackoffInit

\* the backoff formula over a range of failure counts
SpecBackoff == InitBackoff /\ [][BackoffNext]_vars

InitRace == RouterIdle /\ IndexBusy /\ GenInit /\ SearchIdle /\ OrchIdle /\ SupIdle

\* searches at any moment of a run in which a rebuild may already be under way
SpecRace == InitRace /\ [][SearchNext]_vars

\* every started thread keeps running; a released lock is handed to a waiter
FairSpecIndex == SpecIndex /\ \A t \in Threads : WF_vars(ThreadStep(t))

(***************************************************************************)
(* Claims on the intent router (checked under SpecRouter)                  *)
(***************************************************************************)
Intents == {"inject", "learn", "act", "web", "answer"}

\* the latest message as the router examines it: lower-cased and stripped
LatestText == Strip(Lower(state.messages[Len(state.messages)]))

StartsWithInjectTrigger ==
    \/ StartsWith(LatestText, "jarvis, note that")
    \/ StartsWith(LatestText, "jarvis note that")

HasLearnCue == Contains(LatestText, "remember") \/ Contains(LatestText, "save this")

HasActionCue ==
    \/ StartsWith(LatestText, "play ")
    \/ StartsWith(LatestText, "open ")
    \/ Contains(LatestText, "send whatsapp")
    \/ StartsWith(LatestText, "audit ")
    \/ Contains(LatestText, "open youtube")

\* the Act rule of the router: a trigger phrase at the start or anywhere
MatchesActRule ==
    \E t \in {"play ", "open ", "send whatsapp", "audit ", "open youtube"} :
        StartsWith(LatestText, t) \/ Contains(LatestText, t)

RetrievalEmpty == state.documents = None \/ state.documents = Some(<<>>)

\* C1: a message whose lower-cased, stripped text starts with an inject
\* trigger phrase is routed to Inject, whatever other cue it contains and
\* whatever retrieval returned.
C1_InjectPrecedence ==
    (route # "pending" /\ StartsWithInjectTrigger) => route = "inject"

C1_Witness ==
    /\ route = "inject"
    /\ HasLearnCue
    /\ ~RetrievalEmpty

\* C2: a message that contains "remember" or "save this" and does not start
\* with an inject trigger is routed to Learn, even when it also contains an
\* action trigger, whatever retrieval returned.
C2_Learn ==
    (route # "pending" /\ HasLearnCue /\ ~StartsWithInjectTrigger) => route = "learn"

C2_Witness ==
    /\ route = "learn"
    /\ HasActionCue
    /\ RetrievalEmpty

\* C3: a message that starts with "play ", "open " or "audit ", or contains
\* "send whatsapp" or "open youtube", and matches neither the Inject nor the
\* Learn rule, is routed to Act whatever retrieval returned.
C3_Act ==
    (route # "pending" /\ HasActionCue /\ ~StartsWithInjectTrigger /\ ~HasLearnCue)
        => route = "act"

C3_Witness ==
    /\ route = "act"
    /\ Contains(LatestText, "open youtube")
    /\ ~StartsWith(LatestText, "open ")
    /\ ~RetrievalEmpty

\* C4: the router returns exactly one of the five intents; the result is the
\* same for every state that has the same latest message text and the same
\* answer to "did retrieval return a document"; when no Inject, Learn or Act
\* rule matches the result is WebAugment on empty retrieval, Respond otherwise.
C4_TotalDefault ==
    route # "pending" =>
        /\ route \in Intents
        /\ \A p \in PriorThreads, d \in DocChoices, u \in UserIds :
              ((d = None \/ d = Some(<<>>)) <=> RetrievalEmpty) =>
                 router([messages |-> Append(p, state.messages[Len(state.messages)]),
                         documents |-> d, question |-> "", user_id |-> u]) = route
        /\ (~StartsWithInjectTrigger /\ ~HasLearnCue /\ ~MatchesActRule) =>
              route = (IF RetrievalEmpty THEN "web" ELSE "answer")

C4_Witness ==
    /\ ~StartsWithInjectTrigger /\ ~HasLearnCue /\ ~MatchesActRule
    /\ route = "web"
    /\ state.documents = Some(<<>>)
    /\ Len(state.messages) > 1
    /\ LatestText = "tell me about permits"

(***************************************************************************)
(* Claims on the knowledge index manager (SpecIndex, FairSpecIndex)        *)
(***************************************************************************)
\* thread t is inside the with-block of _build_index
InBody(t) == threads[t].pc \in {"sample", "load", "split", "count", "add"}

\* C5: under any interleaving of rebuilds started by chat injection, Learn,
\* /teach and filesystem events, at most one thread is inside the body of
\* _build_index at any time.
C5_MutualExclusion == Cardinality({ t \in Threads : InBody(t) }) <= 1

C5_Witness ==
    \E t, u \in Threads :
        /\ threads[t].pc = "add"
        /\ threads[u].pc = "reindex"
        /\ reindex_lock = t

\* C6: a rebuild requested while another holds the lock waits and, the
\* threads being scheduled fairly, eventually runs its own rebuild body; the
\* lock is never taken from the rebuild in flight.
C6_RebuildNotDropped ==
    /\ \A t \in Threads : (threads[t].pc = "reindex") ~> (reindex_lock = t)
    /\ [][reindex_lock # 0 => reindex_lock' \in {reindex_lock, 0}]_vars

C6_Witness ==
    \E t \in Threads :
        /\ reindex_lock = t
        /\ threads[t].blocked
        /\ InBody(t)

NormalRun(r) == ~r.guarded /\ ~r.failed

\* C7: of two successive rebuilds over the same corpus, neither guarded nor
\* failed, the second inserts no chunk and leaves the stored count unchanged.
C7_RebuildIdempotent ==
    Len(rebuilds) = 2 =>
        LET a == rebuilds[1]
            b == rebuilds[2]
        IN  (a.ver = b.ver /\ NormalRun(a) /\ NormalRun(b)) =>
                /\ b.inserted = 0
                /\ b.after = b.before
                /\ ~b.embedded

C7_Witness ==
    /\ Len(rebuilds) = 2
    /\ rebuilds[1].ver = rebuilds[2].ver
    /\ NormalRun(rebuilds[1]) /\ NormalRun(rebuilds[2])
    /\ rebuilds[1].inserted > 0
    /\ rebuilds[2].t # 0
    /\ Len(store) > 0

Logged(kind, by) ==
    \E i \in 1..Len(health_log) : health_log[i].kind = kind /\ health_log[i].by = by

\* C8: a rebuild that samples memory utilization above 40 % inserts nothing,
\* embeds nothing, re-opens the persisted collection and logs a guard event;
\* a rebuild that samples at most 40 % is not guarded.
C8_IndexMemGuard ==
    \A i \in 1..Len(rebuilds) :
        LET r == rebuilds[i] IN
        /\ r.ram > 40 =>
              /\ r.guarded
              /\ r.inserted = 0
              /\ ~r.embedded
              /\ r.vector_store = "open"
              /\ Logged("MemGuardIndex", r.t)
        /\ r.ram <= 40 =>
              /\ ~r.guarded
              /\ ~Logged("MemGuardIndex", r.t)

C8_Witness ==
    /\ rebuilds[Len(rebuilds)].t # 0
    /\ rebuilds[Len(rebuilds)].ram = 45
    /\ Len(split_documents(corpus)) > Len(store)
    /\ vector_store = "open"
    /\ reindex_lock = 0

(***************************************************************************)
(* Claims on the inference governor (SpecGen)                              *)
(***************************************************************************)
Occurrences(seq, x) == Cardinality({ i \in 1..Len(seq) : seq[i] = x })

\* C9: a generate call invokes the fallback directly and never the primary
\* if and only if the utilization sampled for the call is above 40 %; in that
\* case a guard event is logged.
C9_GenMemGuard ==
    last_call.n > 0 =>
        /\ (Occurrences(last_call.invoked, "primary") = 0 /\ Occurrences(last_call.invoked, "fallback") = 1)
              <=> last_call.ram > 40
        /\ last_call.ram > 40 => Logged("MemGuardGen", last_call.n)
        /\ last_call.ram <= 40 => ~Logged("MemGuardGen", last_call.n)

C9_Witness ==
    /\ last_call.n > 0
    /\ last_call.ram = 45
    /\ last_call.invoked = <<"fallback">>
    /\ last_call.answer = FallbackAnswer

AnswerStrings == {PrimaryAnswer, FallbackAnswer, ApologyMemGuard, ApologyBoth}

\* C10: generate never raises; at most 40 % the primary is invoked first and
\* the fallback exactly once iff the primary failed; when both fail the
\* answer is the fixed apology and both failures are logged; every call
\* returns an answer string.
C10_FallbackChain ==
    /\ gen.pc # "raise"
    /\ last_call.n > 0 =>
        /\ ~last_call.raised
        /\ last_call.answer \in AnswerStrings
        /\ last_call.ram <= 40 =>
              /\ last_call.invoked[1] = "primary"
              /\ Occurrences(last_call.invoked, "primary") = 1
              /\ Occurrences(last_call.invoked, "fallback") = (IF last_call.primary_failed THEN 1 ELSE 0)
              /\ (last_call.primary_failed /\ last_call.fallback_failed) =>
                    /\ last_call.answer = ApologyBoth
                    /\ Logged("PrimaryFailed", last_call.n)
                    /\ Logged("FallbackFailed", last_call.n)

C10_Witness ==
    /\ last_call.n > 0
    /\ last_call.ram = 40
    /\ last_call.invoked = <<"primary", "fallback">>
    /\ last_call.answer = ApologyBoth

(***************************************************************************)
(* Claims on post-call eviction (checked under SpecGen)                    *)
(***************************************************************************)
\* C11: every generate call that returns, with a model answer or an apology,
\* starts exactly one eviction thread covering all configured models, and an
\* eviction thread is started only by a returning call, after its backend
\* invocations have finished and its answer is fixed.
C11_EvictAfterEveryCall ==
    [][ /\ (gen.pc # "idle" /\ gen'.pc = "idle") =>
            /\ Len(evictions') = Len(evictions) + 1
            /\ evictions'[Len(evictions')] = 2
            /\ last_call'.invoked # <<>>
            /\ last_call'.answer \in AnswerStrings
        /\ Len(evictions') > Len(evictions) =>
            /\ gen.pc \notin {"idle", "primary", "fallback"}
            /\ gen'.pc = "idle"
      ]_vars

\* a call that ended in the both-backends apology has its eviction running
C11_Witness ==
    /\ last_call.n > 0
    /\ last_call.answer = ApologyBoth
    /\ last_call.evicted = 1
    /\ evictions # <<>>

CanIngest == edits < MaxEdits /\ \E t \in Threads : threads[t].pc = "unborn"

\* C13: Inject, Learn and /teach never wait for the rebuild lock: each of them
\* can complete in every state, also while a rebuild holds the lock, and the
\* step that returns the acknowledgement leaves the lock and every running
\* thread as they are; the rebuild it scheduled is a thread of its own that
\* has yet to ask for the lock.
C13_NonBlockingIngestion ==
    /\ [](CanIngest =>
            /\ ENABLED (\E t \in Threads, i \in Positions : Inject(i, t))
            /\ ENABLED (\E t \in Threads, i \in Positions : Teach(i, t))
            /\ ENABLED (\E t \in Threads, i \in Positions, o \in BOOLEAN : Learn(i, o, t)))
    /\ [][ \A t \in Threads :
             (edits' = edits + 1 /\ threads[t].pc = "unborn" /\ threads'[t].pc # "unborn") =>
                 /\ reindex_lock' = reindex_lock
                 /\ threads'[t].pc = "reindex"
                 /\ \A u \in Threads \ {t} : threads'[u] = threads[u] ]_vars

\* an ingestion has returned while thread 1 still holds the lock: its own
\* thread waits, and the watcher has not yet been told about the new file
C13_Witness ==
    /\ edits = 1
    /\ fsEvents.created + fsEvents.modified = 1
    /\ reindex_lock = 1
    /\ threads[1].pc \in {"sample", "load", "split", "count", "add"}
    /\ threads[2].pc = "reindex"

\* C14: when a background rebuild raises inside _build_index, the failure is
\* appended to the health log, the thread ends normally (nothing reaches the
\* request or watch event that started it), the lock is released, and a
\* waiting rebuild can take the lock; the lock is never left with a thread
\* that is no longer inside _build_index.
C14_RebuildFailureSwallowed ==
    /\ \A i \in 1..Len(rebuilds) :
          rebuilds[i].failed =>
              /\ Logged("ReindexFailed", rebuilds[i].t)
              /\ threads[rebuilds[i].t].pc = "done"
              /\ reindex_lock # rebuilds[i].t
    /\ reindex_lock # 0 => InBody(reindex_lock)
    /\ \A u \in Threads :
          (threads[u].pc = "reindex" /\ ~(\E t \in Threads : InBody(t))) =>
              ENABLED Acquire(u)

\* a rebuild failed, and the rebuild after it took the lock and embedded
C14_Witness ==
    /\ Len(rebuilds) = 2
    /\ rebuilds[1].failed
    /\ ~rebuilds[2].failed
    /\ rebuilds[2].t # rebuilds[1].t
    /\ rebuilds[2].inserted > 0

(***************************************************************************)
(* Claims on retrieval (checked under SpecSearch)                          *)
(***************************************************************************)
\* C15 as stated: a search made while no documents are loaded, or after the
\* most recent rebuild was skipped under the memory guard, returns an empty
\* sequence of chunks and no error.
C15_EmptyWhenGuardedOrUnloaded ==
    (last_search.n > 0 /\ (~last_search.loaded \/ last_search.guarded)) =>
        (last_search.documents = <<>> /\ ~last_search.raised)

\* C15 amended: a search made while the vector-store handle is absent (the last
\* unguarded rebuild found no documents) returns an empty sequence and no
\* error; a search made through an open handle, which a guarded rebuild
\* re-opens on the persisted store, returns the store's nearest chunks, at
\* most 3 and empty only for an empty store, unless the query raises.
C15_IndexUnavailable ==
    last_search.n > 0 =>
        /\ last_search.vector_store = "None" =>
               (last_search.documents = <<>> /\ ~last_search.raised)
        /\ (last_search.vector_store # "None" /\ ~last_search.raised) =>
               Len(last_search.documents) =
                   (IF last_search.count < 3 THEN last_search.count ELSE 3)

\* a search over an empty corpus: no handle, no documents, nothing returned
C15_Witness ==
    /\ last_search.n > 0
    /\ last_search.vector_store = "None"
    /\ ~last_search.loaded
    /\ last_search.documents = <<>>
    /\ ~last_search.raised

(***************************************************************************)
(* Claims on the orchestrator (SpecRepeat, SpecOrch)                       *)
(***************************************************************************)
\* the caller of the last request got an answer carrying the shortcut suggestion
HasSuggestion ==
    /\ last_response.answers # <<>>
    /\ Contains(last_response.answers[1], "Shall I create an auto-report shortcut")

\* C16 as stated: a query absent from the usage log and issued repeatedly gets
\* no suggestion on the 1st and 2nd responses and a suggestion on the 3rd and
\* every later (successful) response.
C16_HintOnThird ==
    last_response.n > 0 =>
        /\ last_response.n \in {1, 2} => ~HasSuggestion
        /\ (last_response.n >= 3 /\ ~last_response.raised) => HasSuggestion

\* C16 amended: a query absent from the usage log and issued repeatedly through
\* POST /ask_jarvis gets no suggestion on the 1st, 2nd and 3rd responses; the
\* 4th and every later response carries it when dispatch succeeded, and the
\* error reply never carries it.
C16_HintOnFourth ==
    last_response.n > 0 =>
        /\ last_response.n \in {1, 2, 3} => ~HasSuggestion
        /\ (last_response.n >= 4 /\ ~last_response.raised) => HasSuggestion
        /\ last_response.raised => ~HasSuggestion

\* the fourth issue of the query is answered with the suggestion
C16_Witness ==
    /\ last_response.n = 4
    /\ ~last_response.raised
    /\ HasSuggestion

\* entries already in the log when the last request arrived that ask for its
\* text, letter case aside
PriorMatches ==
    Cardinality({ i \in 1..last_response.prior :
                    Lower(usage_log[i].query) = Lower(last_response.text) })

\* C17: on the request-response and socket channels a successful answer
\* carries the suggestion if and only if the usage log held, when the request
\* arrived and before its own entry was written, at least 3 entries whose
\* query equals the request text case-insensitively, whatever their user id
\* and outcome.
C17_HintCountsPriorEntries ==
    (/\ last_response.n > 0
     /\ last_response.channel \in {"http", "ws"}
     /\ last_response.dispatched
     /\ ~last_response.raised) =>
        (HasSuggestion <=> PriorMatches >= 3)

\* a suggestion earned by entries of another user, of a failed request and of
\* another letter case
C17_Witness ==
    /\ last_response.n > 0
    /\ last_response.channel = "ws"
    /\ HasSuggestion
    /\ PriorMatches = 3
    /\ \E i \in 1..last_response.prior :
          /\ usage_log[i].user_id # last_response.user_id
          /\ usage_log[i].query # last_response.text
    /\ \E i \in 1..last_response.prior : StartsWith(usage_log[i].outcome, "error: ")

\* the inject trigger the last request text starts with, letter case aside
TriggerOf(text) ==
    IF StartsWith(Lower(text), "jarvis, note that") THEN "jarvis, note that"
    ELSE IF StartsWith(Lower(text), "jarvis note that") THEN "jarvis note that"
    ELSE ""

\* the body of an inject message as the user wrote it
BodyOf(text) == Strip(SubSeq(text, Len(TriggerOf(text)) + 1, Len(text)))

\* C18: a successfully dispatched inject message "<trigger> <body>" creates a
\* knowledge file whose text contains the body exactly as the user wrote it,
\* letter case included, and the response acknowledges committing it to memory.
C18_InjectKeepsBody ==
    (/\ last_response.n > 0
     /\ last_response.dispatched
     /\ ~last_response.raised
     /\ TriggerOf(last_response.text) # "") =>
        /\ Contains(knowledge_file, BodyOf(last_response.text))
        /\ Contains(last_response.answers[1], "committed that to my long-term memory")

\* C19: every dispatched request, on any channel, has appended exactly one
\* usage entry of its own: outcome ok or the channel tag when dispatch
\* succeeded, "error: <detail>" when dispatch raised.
C19_OneUsageEntry ==
    (last_response.n > 0 /\ last_response.dispatched) =>
        /\ Len(usage_log) = last_response.prior + 1
        /\ usage_log[Len(usage_log)].query = last_response.text
        /\ usage_log[Len(usage_log)].user_id = last_response.user_id
        /\ IF last_response.raised
           THEN StartsWith(usage_log[Len(usage_log)].outcome, "error: ")
           ELSE usage_log[Len(usage_log)].outcome \in {"ok", "ws_ok", "voice_ok"}

\* C20: every request with non-empty text on the request-response or socket
\* channel gets exactly one answer string, also when dispatch raised; the
\* error does not leave the handler as an exception and the connection goes
\* on being served.
C20_DegradedAnswer ==
    (/\ last_response.n > 0
     /\ last_response.channel \in {"http", "ws"}
     /\ last_response.text # "") =>
        /\ Len(last_response.answers) = 1
        /\ ~last_response.propagated
        /\ last_response.serving

\* C21: the restart sleep computed from a failure count f is 30, 60, 120, 120,
\* 120 seconds for f = 0, 1, 2, 3, 4, equals min(30 * 2^min(f,3), 120), and is
\* never more than 120 seconds for any f.
C21_BackoffSchedule ==
    bk.sleep # -1 =>
        /\ bk.sleep <= 120
        /\ bk.sleep = (IF bk.f = 0 THEN 30 ELSE IF bk.f = 1 THEN 60 ELSE 120)
        /\ bk.f <= 4 => bk.sleep = <<30, 60, 120, 120, 120>>[bk.f + 1]

C21_Witness == bk.f = 4 /\ bk.sleep = 120

\* C22 as stated: the failure count never goes from 3 to 0 except by the step
\* that ends the 300-second cooldown.
C22_ResetOnlyByCooldown ==
    [][fail_count = 3 /\ fail_count' = 0 => sup.pc = "cooldown"]_vars

\* C22: a poll that finds the port down with the failure count at 3 enters the
\* 300-second cooldown before anything else, the count is reset to 0 when that
\* cooldown ends, and the count goes from 3 to 0 only through the cooldown or
\* through a poll that found the port listening.
C22_CooldownOrSuccess ==
    [][/\ sup.pc = "down" /\ fail_count = 3 => sup'.pc = "cooldown"
       /\ sup.pc = "cooldown" =>
              /\ fail_count' = 0
              /\ Len(streak.sleeps) < MaxStreak =>
                     streak'.sleeps = Append(streak.sleeps, COOLDOWN)
       /\ fail_count = 3 /\ fail_count' = 0 =>
              \/ sup.pc = "cooldown"
              \/ sup.pc = "up" /\ sup.alive /\ sup_log = <<>>]_vars

C22_Witness ==
    /\ sup.pc = "backoff" /\ sup.f_at_poll = 3 /\ fail_count = 0
    /\ sup_log = <<"CooldownStart", "CooldownComplete">>

\* the supervisor is in neither a restart nor a cooldown
Healthy == sup.pc \in {"poll", "up", "child", "interval"} /\ sup.origin = "none"

\* C23: right after a poll that found a listener on the port has been acted
\* on, the supervisor is Healthy and the failure count is 0, whatever the
\* count was when the poll was made.
C23_ResetOnSuccess ==
    /\ sup.pc = "child" => sup.alive /\ Healthy /\ fail_count = 0
    /\ sup.pc = "up" => sup.alive /\ ENABLED Up

C23_Witness == sup.pc = "child" /\ sup.f_at_poll = 3 /\ fail_count = 0

DetectsFailure == sup.pc # "start" /\ sup'.pc = "start"

EntersCooldown == sup.pc # "cooldown" /\ sup'.pc = "cooldown"

LeavesCooldown == sup.pc = "cooldown" /\ sup'.pc # "cooldown"

\* start_server has been called and has returned or raised
RestartAction == sup.pc = "start" /\ sup'.pc # "start"

\* a poll finds the port listening after restarts: back to Healthy, count reset
Recovers == sup.pc = "up" /\ fail_count > 0 /\ fail_count' = 0

\* the step appends at least one entry to the Health log
AppendsLog == Len(sup_log') > Len(sup_log) /\ SubSeq(sup_log', 1, Len(sup_log)) = sup_log

\* C25 as stated: every supervisor transition, the return to Healthy with the
\* count reset included, and every restart action appends at least one entry
\* to the Health log.
C25_EveryTransitionLogged ==
    [][(DetectsFailure \/ EntersCooldown \/ LeavesCooldown \/ RestartAction
            \/ Recovers) => AppendsLog]_vars

\* C25: detecting a failure, entering the cooldown, leaving the cooldown and
\* every restart action each append at least one entry to the Health log; the
\* return to Healthy, where a successful poll resets the count, appends none.
C25_TransitionsLoggedButRecovery ==
    [][/\ (DetectsFailure \/ EntersCooldown \/ LeavesCooldown \/ RestartAction)
            => AppendsLog
       /\ Recovers => UNCHANGED sup_log]_vars

C25_Witness ==
    /\ sup.pc = "grace" /\ sup.f_at_poll = 3
    /\ sup_log = <<"CooldownStart", "CooldownComplete", "PortDown",
                   "Restarted", "Apology">>

\* the number of error entries among the Health-log entries of this turn
ErrorEntries(entries) == Occurrences(entries, "WatchdogError")

\* C26 as stated: an error while killing stale processes or launching the
\* server is logged, and the loop goes on.
C26_KillAndLaunchErrorsLogged ==
    [][sup.pc = "start" /\ (sup'.kill = "error" \/ sup'.origin = "failed") =>
           /\ ErrorEntries(sup_log') > ErrorEntries(sup_log)
           /\ sup'.pc \in {"grace", "interval"}]_vars

\* C26: with no stop signal the poll loop polls again and again for ever; an
\* error while launching the server is logged and the loop goes on to the
\* interval sleep and the next poll; an error while killing stale processes is
\* swallowed without a log entry and the restart goes on.
C26_LoopNeverStops ==
    /\ []<>(sup.pc = "poll")
    /\ []<>(sup.pc # "poll")
    /\ [][sup.pc = "start" =>
              /\ sup'.origin = "failed" =>
                     /\ sup'.pc = "interval"
                     /\ sup_log' = sup_log \o KillLog(sup'.kill) \o <<"WatchdogError">>
              /\ sup'.origin # "failed" =>
                     /\ sup'.pc = "grace"
                     /\ sup_log' = sup_log \o KillLog(sup'.kill) \o RestartedLog
              /\ sup'.kill = "error" => KillLog(sup'.kill) = <<>>]_vars

C26_Witness == sup.pc = "interval" /\ sup.origin = "failed" /\ sup.kill = "error"

\* C27: once the 300-second cooldown has completed and the count is reset, no
\* server launch is made or under way before the port has been polled again.
C27_PollAfterCooldown ==
    Occurrences(sup_log, "CooldownComplete") > 0 =>
        /\ sup.pc \notin {"start", "grace"}
        /\ Occurrences(sup_log, "Restarted") = 0

\* the sleeps of a run of failed polls that starts at count 0
DownSchedule == <<30, 60, 120, 300, 30, 60, 120, 300>>

\* C28: in a run of polls that all find the port down, started at failure
\* count 0, the sleeps taken are 30, 60 and 120 seconds after the 1st, 2nd and
\* 3rd restart, then the 300-second cooldown before the 4th restart, then 30
\* seconds again after that restart.
C28_BackoffSequence ==
    streak.f0 = 0 =>
        /\ Len(streak.sleeps) <= Len(DownSchedule)
        /\ streak.sleeps = SubSeq(DownSchedule, 1, Len(streak.sleeps))
        /\ sup.pc = "grace" /\ sup.origin = "down" /\ Len(streak.sleeps) < MaxStreak =>
               last_restart.sleep = DownSchedule[Len(streak.sleeps) + 1]

C28_Witness ==
    /\ streak.f0 = 0 /\ streak.sleeps = <<30, 60, 120, 300, 30>>
    /\ fail_count = 1 /\ sup.pc = "interval"

Larger(a, b) == IF a > b THEN a ELSE b

\* thread t ends an unguarded rebuild over a non-empty corpus without a failure
CompletesRebuild(t) ==
    /\ threads[t].pc = "add" /\ threads'[t].pc = "done"
    /\ ~rebuilds'[Len(rebuilds')].failed

\* C29: an unguarded rebuild over a non-empty corpus that finds S chunks
\* stored and N fresh chunks inserts exactly max(0, N - S) chunks, namely the
\* fresh chunks at positions S..N-1 in their order, after the stored ones, and
\* leaves max(S, N) chunks stored.
C29_SuffixDiff ==
    [][\A t \in Threads : CompletesRebuild(t) =>
          LET S == Len(store)
              N == Len(chunks)
          IN  /\ threads[t].existing_count = S
              /\ N > 0
              /\ Len(store') - S = Larger(0, N - S)
              /\ SubSeq(store', 1, S) = store
              /\ \A i \in (S + 1)..N : store'[i] = chunks[i]
              /\ Len(store') = Larger(S, N)]_vars

C29_Witness ==
    LET r == rebuilds[Len(rebuilds)]
    IN  /\ ~r.guarded /\ ~r.failed /\ r.t > 0
        /\ r.before > 0 /\ r.inserted > 0
        /\ store = SubSeq(store, 1, r.before) \o SubSeq(chunks, r.before + 1, Len(chunks))

\* no run of _build_index is between its split and its insertion
NoRebuildMidway == \A t \in Threads : threads[t].pc \notin {"count", "add"}

\* C30: as long as no rebuild was guarded or failed and every fresh chunk
\* sequence had the previous one as a prefix, after every rebuild the vector
\* store holds exactly the current chunk sequence, each chunk once.
C30_AppendOnlyCorrect ==
    append_only /\ NoRebuildMidway =>
        /\ store = chunks
        /\ \A i \in 1..Len(store) : Occurrences(store, store[i]) = 1

C30_Witness ==
    LET r == rebuilds[Len(rebuilds)]
    IN  /\ append_only /\ NoRebuildMidway
        /\ r.t > 0 /\ r.before > 0 /\ r.inserted > 0
        /\ store = chunks /\ Len(store) = r.after

(***************************************************************************)
(* Further claims on the supervisor (SpecSup)                              *)
(***************************************************************************)
\* C34: the consecutive-failure count is between 0 and 3 inclusive in every
\* reachable state, under any sequence of poll outcomes and child exits.
C34_CountRange == fail_count \in 0..3

C34_Witness ==
    /\ fail_count = 3 /\ sup.pc = "cooldown"
    /\ last_restart.cause = "down" /\ last_restart.f = 2

\* C35: every restart attempt adds one to the consecutive-failure count, also
\* an attempt in which launching the server process raises an error.
C35_EveryAttemptCounted ==
    [][sup.pc = "start" => fail_count' = fail_count + 1]_vars

\* C36: the server is never launched more than 3 times without a cooldown or a
\* poll that found the port listening and the tracked child running in between.
C36_NoRestartStorm == launches <= 3

(***************************************************************************)
(* Further claims on the index manager (SpecIndex, SpecSearch)             *)
(***************************************************************************)
\* thread t leaves _build_index through the memory guard
GuardSkips(t) == threads[t].pc = "sample" /\ threads'[t].pc = "done"

\* C39 as stated: a rebuild skipped by the memory guard leaves the document
\* list, the chunk list and the lexical retriever of the previous rebuild and
\* the stored chunks unchanged, and re-opens the vector-store handle.
C39_GuardKeepsLists ==
    [][\A t \in Threads : GuardSkips(t) =>
          /\ UNCHANGED <<documents, chunks, bm25_retriever, store>>
          /\ vector_store' = "open"]_vars

\* C39: a rebuild skipped by the memory guard empties the in-memory document
\* list and chunk list, drops the lexical retriever, re-opens the vector-store
\* handle, and leaves the persisted collection and the corpus unchanged.
C39_GuardEmptiesLists ==
    [][\A t \in Threads : GuardSkips(t) =>
          /\ documents' = <<>> /\ chunks' = <<>> /\ bm25_retriever' = None
          /\ vector_store' = "open"
          /\ UNCHANGED <<store, corpus>>]_vars

C39_Witness ==
    /\ Len(rebuilds) = 2
    /\ rebuilds[2].guarded /\ rebuilds[2].t > 0
    /\ ~rebuilds[1].guarded /\ rebuilds[1].after > 0
    /\ documents = <<>> /\ chunks = <<>> /\ bm25_retriever = None
    /\ Len(store) > 0 /\ vector_store = "open"

\* the chunk holding the fact line, when the last write to ./data was a Learn
LastFact == edits + 12

FactInCorpus ==
    \E i \in 1..Len(corpus) : Occurrences(corpus[i].chunks, LastFact) > 0

\* every reindex thread started so far has finished, and a run of _build_index
\* over the present corpus ended without memory guard and without error
RebuiltSinceLastWrite ==
    /\ \A t \in Threads : threads[t].pc \in {"unborn", "done"}
    /\ \E k \in 1..Len(rebuilds) :
          /\ rebuilds[k].t > 0 /\ rebuilds[k].ver = edits
          /\ ~rebuilds[k].guarded /\ ~rebuilds[k].failed
    /\ rebuilds[Len(rebuilds)].ver = edits
    /\ ~rebuilds[Len(rebuilds)].guarded /\ ~rebuilds[Len(rebuilds)].failed

\* C38: once a Learn request and the rebuild it scheduled have completed
\* without memory guard or error, the vector store contains the chunk that
\* holds the appended fact line, whatever the corpus held before.
C38_LearnedFactStored ==
    FactInCorpus /\ RebuiltSinceLastWrite => Occurrences(store, LastFact) > 0

\* C33: a search that interleaves with a running rebuild never raises (the
\* embedding backend being reachable) and returns the result over the index as
\* the rebuild found it or as the rebuild leaves it.
C33_SearchNeverRaises ==
    (last_search.n > 0 /\ last_search.backend_ok) =>
        /\ ~last_search.raised
        /\ \/ last_search.documents = similarity_search(store, SearchK)
           \/ last_search.documents = <<>>

(***************************************************************************)
(* Further claims on the inference governor (SpecGen)                      *)
(***************************************************************************)
\* a backend invocation of the current response_node call is in flight
InvocationInFlight == gen.pc \in {"primary", "fallback"}

\* C40: the eviction started at the end of one generate call never executes
\* while a backend invocation of another generate call is in flight.
C40_NoEvictionDuringInvocation ==
    [][InvocationInFlight => evictions' = evictions]_vars

\* a request that ran the graph to its end
Dispatched == last_dispatch.intent # "none" /\ ~last_dispatch.raised

\* C37 (as stated): a message the router classifies as Act is one for which
\* detect_action returns an action, so an Act request is never answered with
\* the default "Command executed, Sir." without an action dispatched
C37_ActAlwaysDispatches ==
    (Dispatched /\ last_dispatch.intent = "act")
        => (last_dispatch.acted /\ last_dispatch.answer # ActAnswer)

\* how often a node occurs in a path
Visits(path, node) == Cardinality({ i \in DOMAIN path : path[i] = node })

\* C31: the responder (inference governor) runs exactly once when the intent
\* is WebAugment or Respond and never when it is Inject, Learn or Act; the web
\* search runs if and only if the intent is WebAugment, and before the responder
C31_GovernorAndWebSearch ==
    Dispatched =>
        LET path == last_dispatch.path
            intent == last_dispatch.intent
        IN  /\ Visits(path, "respond") = (IF intent \in {"web", "answer"} THEN 1 ELSE 0)
            /\ Visits(path, "web_search") = (IF intent = "web" THEN 1 ELSE 0)
            /\ \A i, j \in DOMAIN path :
                  (path[i] = "web_search" /\ path[j] = "respond") => i < j
            /\ intent \in {"web", "answer"} => path[Len(path)] = "respond"

C31_Witness ==
    /\ Dispatched
    /\ last_dispatch.intent = "web"
    /\ last_dispatch.path = <<"retrieve", "web_search", "respond">>
    /\ last_response.channel = "ws"

\* the step of a request that ran the graph to its end
Dispatches == nreq' = nreq + 1 /\ last_dispatch'.intent # "none" /\ ~last_dispatch'.raised

\* the threads of the other user ids stay as they are
OtherThreadsKept == \A u \in UserIds : u # last_response'.user_id => memory'[u] = memory[u]

====
